---------------------------- MODULE Spec2Model ----------------------------
(***************************************************************************)
(* Model of the manifest compiler of osbuild-images:                       *)
(*   internal/distro/rhel8/imagetype.go  (imageType, checkOptions,         *)
(*   Manifest, PackageSets, Size, getPartitionTable, and the architecture  *)
(*   registry GetImageType / addImageTypes).                               *)
(*                                                                         *)
(* Go values are modelled as follows.                                      *)
(*   - a string is a TLA+ string, "" is Go's empty string;                 *)
(*   - a pointer or slice that may be nil is a sequence of length 0 (nil)  *)
(*     or 1 (the value pointed to);                                        *)
(*   - an error is a string, "" is the nil error;                          *)
(*   - a uint64 is a triple of limbs (see the section on Size).            *)
(***************************************************************************)
EXTENDS Integers, Sequences, FiniteSets, TLC

VARIABLES
    op,       \* the operation of the current call ("" before any call)
    args,     \* the inputs of the call
    ret,      \* what the call returned (a record that depends on op)
    ret2,     \* what a second, identical call returned (Manifest only)
    catalog,           \* the image types defined as package variables
    heap,              \* the imageType objects allocated by addImageTypes
    imageTypes,        \* architecture.imageTypes of every architecture:
                       \* name -> pointer (an index of heap)
    imageTypeAliases   \* architecture.imageTypeAliases of every
                       \* architecture: alias -> name

\* The registry of the distribution.
regVars == <<catalog, heap, imageTypes, imageTypeAliases>>

vars == <<op, args, ret, ret2, regVars>>

\* The nil pointer / nil slice, and a pointer to v.
Nil == <<>>
Ptr(v) == <<v>>
IsNil(p) == Len(p) = 0
Deref(p) == p[1]

\* The value of a variable that holds nothing yet.
None == [none |-> TRUE]

\* The map without keys.
EmptyMap == [x \in {} |-> x]

\* The architectures of a distribution.
Archs == {"x86_64", "aarch64"}

\* The registry of the specifications that register nothing.
NoRegistry ==
    /\ catalog = <<>>
    /\ heap = <<>>
    /\ imageTypes = [a \in Archs |-> EmptyMap]
    /\ imageTypeAliases = [a \in Archs |-> EmptyMap]

----------------------------------------------------------------------------
(***************************************************************************)
(* Distributions, architectures and image types.                           *)
(***************************************************************************)

\* t.arch.distro: isRHEL() and osVersion are all checkOptions reads of it.
\* osVersion is <<major, minor>>.
Distros ==
    { [name |-> "rhel-87",   isRHEL |-> TRUE,  osVersion |-> <<8, 7>>],
      [name |-> "rhel-86",   isRHEL |-> TRUE,  osVersion |-> <<8, 6>>],
      [name |-> "centos-8",  isRHEL |-> FALSE, osVersion |-> <<8, 0>>] }

DefaultDistro == [name |-> "rhel-87", isRHEL |-> TRUE, osVersion |-> <<8, 7>>]

\* common.VersionLessThan(a, b) on dotted versions of two components.
VersionLessThan(a, b) ==
    \/ a[1] < b[1]
    \/ a[1] = b[1] /\ a[2] < b[2]

\* The image-type names the code tells apart, and one it does not.
ImageTypeNames ==
    { "qcow2", "vhd", "edge-commit", "edge-container", "edge-raw-image",
      "edge-installer", "edge-simplified-installer" }

\* The capability flags the catalog gives the image types that the code
\* names: the edge types are OSTree-based, the two installers are boot ISOs,
\* vhd is a plain disk image.  An image type of any other name ("qcow2"
\* stands for them) may carry any flags.
CatalogFlagsOK(name, rpmOstree, bootISO) ==
    CASE name \in {"edge-installer", "edge-simplified-installer"} ->
            rpmOstree /\ bootISO
      [] name \in {"edge-commit", "edge-container", "edge-raw-image"} ->
            rpmOstree /\ ~bootISO
      [] name = "vhd" -> ~rpmOstree /\ ~bootISO
      [] OTHER -> TRUE

\* The fields of imageType that the modelled methods read.
\*   arch         : the architecture the image type is bound to, or nil
\*   image        : whether the image function is set (t.image != nil)
\*   defaultSize  : a uint64
\*   packageSets  : the names t.packageSets has a constructor for
\*   basePT       : t.basePartitionTables[arch]: nil, or the mountpoints of
\*                  the base partition table
ImgType(name, rpmOstree, bootISO, bootable, image, distro) ==
    [ name        |-> name,
      nameAliases |-> <<>>,
      arch        |-> Ptr([name |-> "x86_64", distro |-> distro]),
      platform    |-> "x86",
      rpmOstree   |-> rpmOstree,
      bootISO     |-> bootISO,
      bootable    |-> bootable,
      image       |-> image,
      defaultSize |-> <<0, 0, 0>>,
      packageSets |-> {"build", "packages"},
      basePT      |-> Ptr({"/", "/boot"}) ]

\* Every image type of the flag combinations the catalog allows.
ImageTypes(images, distros) ==
    { ImgType(n, o, i, b, f, d) :
        <<n, o, i, b, f, d>> \in
          { x \in ImageTypeNames \X BOOLEAN \X BOOLEAN \X BOOLEAN \X images \X distros :
              CatalogFlagsOK(x[1], x[2], x[3]) } }

----------------------------------------------------------------------------
(***************************************************************************)
(* Blueprint customizations and image options.                             *)
(***************************************************************************)

\* The longest filesystem customization list of a request.
MaxFs == 2

Mountpoints == {"/", "/var", "/etc"}

SeqsUpTo(S, n) == UNION { [1..k -> S] : k \in 0..n }

\* blueprint.FDOCustomization
FDOs(urls, hashes, insecures, certs) ==
    [ ManufacturingServerURL : urls,
      DiunPubKeyHash         : hashes,
      DiunPubKeyInsecure     : insecures,
      DiunPubKeyRootCerts    : certs ]

\* blueprint.OpenSCAPCustomization
OpenSCAPs(profiles, streams) ==
    [ ProfileID : profiles, DataStream : streams ]

\* The customizations of the empty blueprint (a nil *Customizations and a
\* zero Customizations answer every getter alike).
EmptyCustomizations ==
    [ InstallationDevice |-> "",
      FDO                |-> Nil,
      KernelAppend       |-> "",
      KernelName         |-> "kernel",
      Filesystem         |-> Nil,
      OpenSCAP           |-> Nil,
      User               |-> Nil,
      Timezone           |-> Nil ]

\* The names of the customization fields, as CheckAllowed knows them.
IsSet(c, field) ==
    CASE field = "InstallationDevice" -> c.InstallationDevice # ""
      [] field = "FDO"        -> ~IsNil(c.FDO)
      [] field = "Kernel"     -> c.KernelAppend # "" \/ c.KernelName # "kernel"
      [] field = "Filesystem" -> ~IsNil(c.Filesystem)
      [] field = "OpenSCAP"   -> ~IsNil(c.OpenSCAP)
      [] field = "User"       -> ~IsNil(c.User)
      [] field = "Timezone"   -> ~IsNil(c.Timezone)

CustomizationFields ==
    {"InstallationDevice", "FDO", "Kernel", "Filesystem", "OpenSCAP", "User",
     "Timezone"}

\* customizations.CheckAllowed(allowed...): an error when a customization
\* outside the allow-list is set.
CheckAllowed(c, allowed) ==
    IF \E f \in CustomizationFields \ allowed : IsSet(c, f)
    THEN "customization not allowed" ELSE ""

\* disk.CheckMountpoints(mountpoints, policy): an error when a mountpoint
\* is not allowed by the policy (the set of the allowed mountpoints).
CheckMountpoints(mountpoints, policy) ==
    IF ~IsNil(mountpoints) /\
       \E i \in 1..Len(Deref(mountpoints)) : Deref(mountpoints)[i] \notin policy
    THEN "The following custom mountpoints are not supported"
    ELSE ""

\* disk.MountpointPolicies as shipped, and other policies.
MountpointPolicies == {"/", "/var"}

\* oscapProfileAllowList
oscapProfileAllowList == {"ospp", "pci-dss", "standard"}

\* oscap.IsProfileAllowed
IsProfileAllowed(profile, allowList) == profile \in allowList

\* distro.ImageOptions: Size and the OSTree parameters.
Options(checksums, urls, rhsms) ==
    [ Size   : {<<0, 0, 0>>},
      OSTree : [ FetchChecksum : checksums, URL : urls, ContentURL : {""},
                 RHSM : rhsms, ImageRef : {""} ] ]

----------------------------------------------------------------------------
(***************************************************************************)
(* checkOptions                                                            *)
(***************************************************************************)

\* diunSet that forgets the root certificates.
diunSet_noRootCerts(fdo) ==
    (IF fdo.DiunPubKeyHash # "" THEN 1 ELSE 0)
    + (IF fdo.DiunPubKeyInsecure # "" THEN 1 ELSE 0)

\* The number of the three DIUN trust anchors that are set.
diunSet(fdo) ==
    (IF fdo.DiunPubKeyHash # "" THEN 1 ELSE 0)
    + (IF fdo.DiunPubKeyInsecure # "" THEN 1 ELSE 0)
    + (IF fdo.DiunPubKeyRootCerts # "" THEN 1 ELSE 0)

\* checkSimplifiedInstaller whose allow-list forgets FDO.
checkSimplifiedInstaller_fdoNotAllowed(t, c) ==
    IF CheckAllowed(c, {"InstallationDevice"}) # ""
    THEN "unsupported blueprint customizations found for boot ISO image type"
    ELSE IF c.InstallationDevice = ""
    THEN "boot ISO image type requires specifying an installation device to install to"
    ELSE IF IsNil(c.FDO) THEN ""
    ELSE IF Deref(c.FDO).ManufacturingServerURL = ""
    THEN "boot ISO image type requires specifying FDO.ManufacturingServerURL"
    ELSE IF diunSet(Deref(c.FDO)) # 1
    THEN "boot ISO image type requires specifying one of the FDO.DiunPubKey fields"
    ELSE ""

\* The checks of a simplified installer (t.name = "edge-simplified-installer").
checkSimplifiedInstaller(t, c) ==
    IF CheckAllowed(c, {"InstallationDevice", "FDO"}) # ""
    THEN "unsupported blueprint customizations found for boot ISO image type"
    ELSE IF c.InstallationDevice = ""
    THEN "boot ISO image type requires specifying an installation device to install to"
    ELSE IF IsNil(c.FDO) THEN ""
    ELSE IF Deref(c.FDO).ManufacturingServerURL = ""
    THEN "boot ISO image type requires specifying FDO.ManufacturingServerURL"
    ELSE IF diunSet(Deref(c.FDO)) # 1
    THEN "boot ISO image type requires specifying one of the FDO.DiunPubKey fields"
    ELSE ""

\* The checks of a boot ISO of an OSTree commit (t.bootISO && t.rpmOstree).
checkBootISO(t, c, options) ==
    IF options.OSTree.FetchChecksum = ""
    THEN "boot ISO image type requires specifying a URL from which to retrieve the OSTree commit"
    ELSE IF t.name = "edge-simplified-installer"
    THEN checkSimplifiedInstaller(t, c)
    ELSE IF t.name = "edge-installer"
    THEN IF CheckAllowed(c, {"User", "Group"}) # ""
         THEN "unsupported blueprint customizations found for boot ISO image type"
         ELSE ""
    ELSE ""

\* checkOpenSCAP that rejects an OSTree type before it looks at the version
\* of the distribution and at the profile.
checkOpenSCAP_ostreeFirst(t, osc) ==
    IF t.rpmOstree
    THEN "OpenSCAP customizations are not supported for ostree types"
    ELSE IF ~Deref(t.arch).distro.isRHEL
       \/ VersionLessThan(Deref(t.arch).distro.osVersion, <<8, 7>>)
    THEN "OpenSCAP unsupported os version"
    ELSE IF ~IsProfileAllowed(osc.ProfileID, oscapProfileAllowList)
    THEN "OpenSCAP unsupported profile"
    ELSE IF osc.DataStream = ""
    THEN "OpenSCAP datastream cannot be empty"
    ELSE IF osc.ProfileID = ""
    THEN "OpenSCAP profile cannot be empty"
    ELSE ""

\* The checks of the OpenSCAP customization osc.
checkOpenSCAP(t, osc) ==
    IF ~Deref(t.arch).distro.isRHEL
       \/ VersionLessThan(Deref(t.arch).distro.osVersion, <<8, 7>>)
    THEN "OpenSCAP unsupported os version"
    ELSE IF ~IsProfileAllowed(osc.ProfileID, oscapProfileAllowList)
    THEN "OpenSCAP unsupported profile"
    ELSE IF t.rpmOstree
    THEN "OpenSCAP customizations are not supported for ostree types"
    ELSE IF osc.DataStream = ""
    THEN "OpenSCAP datastream cannot be empty"
    ELSE IF osc.ProfileID = ""
    THEN "OpenSCAP profile cannot be empty"
    ELSE ""

\* checkOptionsUnder that leaves the mountpoints of an OSTree type to the
\* mountpoint policy.
checkOptionsUnder_policyOnly(policy, t, c, options, containers) ==
    IF Len(containers) > 0 /\ t.rpmOstree
       /\ (t.name # "edge-commit" /\ t.name # "edge-container")
    THEN "embedding containers is not supported"
    ELSE IF t.bootISO /\ t.rpmOstree /\ checkBootISO(t, c, options) # ""
    THEN checkBootISO(t, c, options)
    ELSE IF t.name = "edge-raw-image" /\ options.OSTree.FetchChecksum = ""
    THEN "edge raw images require specifying a URL from which to retrieve the OSTree commit"
    ELSE IF c.KernelAppend # "" /\ t.rpmOstree /\ (~t.bootable \/ t.bootISO)
    THEN "kernel boot parameter customizations are not supported for ostree types"
    ELSE IF CheckMountpoints(c.Filesystem, policy) # ""
    THEN CheckMountpoints(c.Filesystem, policy)
    ELSE IF ~IsNil(c.OpenSCAP)
    THEN checkOpenSCAP(t, Deref(c.OpenSCAP))
    ELSE ""

\* checkOptions with the mountpoint policy as a parameter.
checkOptionsUnder(policy, t, c, options, containers) ==
    IF Len(containers) > 0 /\ t.rpmOstree
       /\ (t.name # "edge-commit" /\ t.name # "edge-container")
    THEN "embedding containers is not supported"
    ELSE IF t.bootISO /\ t.rpmOstree /\ checkBootISO(t, c, options) # ""
    THEN checkBootISO(t, c, options)
    ELSE IF t.name = "edge-raw-image" /\ options.OSTree.FetchChecksum = ""
    THEN "edge raw images require specifying a URL from which to retrieve the OSTree commit"
    ELSE IF c.KernelAppend # "" /\ t.rpmOstree /\ (~t.bootable \/ t.bootISO)
    THEN "kernel boot parameter customizations are not supported for ostree types"
    ELSE IF ~IsNil(c.Filesystem) /\ t.rpmOstree
    THEN "Custom mountpoints are not supported for ostree types"
    ELSE IF CheckMountpoints(c.Filesystem, policy) # ""
    THEN CheckMountpoints(c.Filesystem, policy)
    ELSE IF ~IsNil(c.OpenSCAP)
    THEN checkOpenSCAP(t, Deref(c.OpenSCAP))
    ELSE ""


\* checkOptions: the policy is the package variable disk.MountpointPolicies.
checkOptions(t, c, options, containers) ==
    checkOptionsUnder(MountpointPolicies, t, c, options, containers)

----------------------------------------------------------------------------
(***************************************************************************)
(* Specification SpecCheck: one call of checkOptions on a request drawn    *)
(* from CheckRequests.                                                     *)
(***************************************************************************)

\* A container.Spec; only the number of the containers is read.
Container == [Source |-> "registry/image", LocalName |-> "image"]

FsCustomizations == {Nil} \cup { Ptr(l) : l \in SeqsUpTo(Mountpoints, MaxFs) }

\* Customizations around the installers: installation device, FDO, kernel
\* parameters, users and filesystems.
InstallerCustomizations ==
    [ InstallationDevice : {"", "/dev/sda"},
      FDO                : {Nil} \cup
                           { Ptr(f) : f \in FDOs({"", "http://fdo"}, {"", "hash"},
                                                 {"", "true"}, {"", "certs"}) },
      KernelAppend       : {"", "debug"},
      KernelName         : {"kernel"},
      Filesystem         : {Nil, Ptr(<<>>), Ptr(<<"/var">>), Ptr(<<"/etc">>)},
      OpenSCAP           : {Nil},
      User               : {Nil, Ptr("user")},
      Timezone           : {Nil} ]

\* Customizations around OpenSCAP and the filesystems.
OpenSCAPCustomizations ==
    [ InstallationDevice : {"", "/dev/sda"},
      FDO                : {Nil},
      KernelAppend       : {"", "debug"},
      KernelName         : {"kernel"},
      Filesystem         : FsCustomizations,
      OpenSCAP           : { Ptr(o) : o \in OpenSCAPs({"", "ospp", "cis"},
                                                      {"", "ds.xml"}) },
      User               : {Nil},
      Timezone           : {Nil} ]

\* The mountpoint policies a request is checked under.
Policies == { MountpointPolicies, {}, Mountpoints }

CheckRequests ==
    [ t          : ImageTypes({FALSE}, {DefaultDistro}),
      c          : InstallerCustomizations,
      options    : Options({"", "sha"}, {""}, {FALSE}),
      containers : {<<>>, <<Container>>},
      policy     : {MountpointPolicies} ]
    \cup
    [ t          : ImageTypes({FALSE}, Distros),
      c          : OpenSCAPCustomizations,
      options    : Options({"sha"}, {""}, {FALSE}),
      containers : {<<>>},
      policy     : Policies ]

InitCheck ==
    /\ op = ""
    /\ args \in CheckRequests
    /\ ret = None
    /\ ret2 = None
    /\ NoRegistry

CheckOptions ==
    /\ op = ""
    /\ op' = "checkOptions"
    /\ ret' = [ err |-> checkOptionsUnder(args.policy, args.t, args.c,
                                          args.options, args.containers) ]
    /\ UNCHANGED <<args, ret2, regVars>>

NextCheck == CheckOptions

SpecCheck == InitCheck /\ [][NextCheck]_vars

Checked == op = "checkOptions"


\* The request is for the simplified installer and carries an FDO block.
SimplifiedInstallerWithFDO ==
    /\ args.t.name = "edge-simplified-installer"
    /\ ~IsNil(args.c.FDO)

\* The DIUN trust anchors of the request's FDO block that are not empty.
TrustAnchorsSet ==
    { k \in {"DiunPubKeyHash", "DiunPubKeyInsecure", "DiunPubKeyRootCerts"} :
        Deref(args.c.FDO)[k] # "" }

\* C2: for the simplified installer with an FDO block, checkOptions returns
\* an error whenever none or more than one of DiunPubKeyHash,
\* DiunPubKeyInsecure and DiunPubKeyRootCerts is set.
C2_DiunNotOneIsError ==
    (Checked /\ SimplifiedInstallerWithFDO /\ Cardinality(TrustAnchorsSet) # 1)
        => ret.err # ""

\* C2 witness: checkOptions reached the DIUN check itself, with two anchors
\* set, and rejected the request there.
C2_Witness ==
    /\ Checked /\ SimplifiedInstallerWithFDO
    /\ Cardinality(TrustAnchorsSet) = 2
    /\ args.c.InstallationDevice # ""
    /\ Deref(args.c.FDO).ManufacturingServerURL # ""
    /\ ret.err = "boot ISO image type requires specifying one of the FDO.DiunPubKey fields"

\* C3 as stated: for the simplified installer, checkOptions succeeds
\* whenever exactly one trust anchor is set and an installation device is
\* present.
C3_OneAnchorAndDeviceSucceeds ==
    (Checked /\ SimplifiedInstallerWithFDO /\ Cardinality(TrustAnchorsSet) = 1
     /\ args.c.InstallationDevice # "")
        => ret.err = ""

\* The rest of the request passes the rules that come before and after the
\* FDO rules: no embedded container, a resolved OSTree checksum, no
\* customization but the installation device and the FDO block, and a
\* manufacturing server URL.
C3_RestValid ==
    /\ Len(args.containers) = 0
    /\ args.options.OSTree.FetchChecksum # ""
    /\ \A f \in CustomizationFields \ {"InstallationDevice", "FDO"} :
          ~IsSet(args.c, f)
    /\ Deref(args.c.FDO).ManufacturingServerURL # ""

\* C3 amended: for the simplified installer, checkOptions succeeds whenever
\* exactly one trust anchor is set, an installation device is present, the
\* FDO block names a manufacturing server URL, the OSTree checksum is
\* resolved, no container is embedded and no other customization is set.
C3_ValidSimplifiedInstallerSucceeds ==
    (Checked /\ SimplifiedInstallerWithFDO /\ Cardinality(TrustAnchorsSet) = 1
     /\ args.c.InstallationDevice # "" /\ C3_RestValid)
        => ret.err = ""

\* C3 witness: such a request, with the root certificates as the one anchor,
\* was accepted.
C3_Witness ==
    /\ Checked /\ SimplifiedInstallerWithFDO
    /\ TrustAnchorsSet = {"DiunPubKeyRootCerts"}
    /\ args.c.InstallationDevice # "" /\ C3_RestValid
    /\ ret.err = ""

\* The request carries a filesystem customization list that is not empty.
HasMountpoints ==
    /\ ~IsNil(args.c.Filesystem)
    /\ Len(Deref(args.c.Filesystem)) > 0

\* C4: for an image type with rpmOstree set and a non-empty filesystem
\* customization list, checkOptions returns an error, whatever the rest of
\* the request and whatever the mountpoint policy allows.
C4_OstreeMountpointsIsError ==
    (Checked /\ args.t.rpmOstree /\ HasMountpoints) => ret.err # ""

\* C4 witness: a policy that allows every requested mountpoint, and the
\* request is rejected by the OSTree rule.
C4_Witness ==
    /\ Checked /\ args.t.rpmOstree /\ HasMountpoints
    /\ \A i \in 1..Len(Deref(args.c.Filesystem)) :
          Deref(args.c.Filesystem)[i] \in args.policy
    /\ ret.err = "Custom mountpoints are not supported for ostree types"


\* The rules of checkOptions in the order of its statements, each with the
\* condition under which the request violates it, whatever the other rules
\* say, and with the error it returns.
RuleTable(policy, t, c, options, containers) ==
    LET bootISO     == t.bootISO /\ t.rpmOstree
        simplified  == bootISO /\ t.name = "edge-simplified-installer"
        hasFDO      == ~IsNil(c.FDO)
        hasOSC      == ~IsNil(c.OpenSCAP)
        Rule(v, e)  == [ violated |-> v, err |-> e ]
    IN  << Rule(Len(containers) > 0 /\ t.rpmOstree
                  /\ t.name \notin {"edge-commit", "edge-container"},
                "embedding containers is not supported"),
           Rule(bootISO /\ options.OSTree.FetchChecksum = "",
                "boot ISO image type requires specifying a URL from which to retrieve the OSTree commit"),
           Rule(simplified
                  /\ \E f \in CustomizationFields \ {"InstallationDevice", "FDO"} :
                        IsSet(c, f),
                "unsupported blueprint customizations found for boot ISO image type"),
           Rule(simplified /\ c.InstallationDevice = "",
                "boot ISO image type requires specifying an installation device to install to"),
           Rule(simplified /\ hasFDO /\ Deref(c.FDO).ManufacturingServerURL = "",
                "boot ISO image type requires specifying FDO.ManufacturingServerURL"),
           Rule(simplified /\ hasFDO
                  /\ Cardinality({ f \in {"DiunPubKeyHash", "DiunPubKeyInsecure",
                                          "DiunPubKeyRootCerts"} :
                                     Deref(c.FDO)[f] # "" }) # 1,
                "boot ISO image type requires specifying one of the FDO.DiunPubKey fields"),
           Rule(bootISO /\ t.name = "edge-installer"
                  /\ \E f \in CustomizationFields \ {"User", "Group"} : IsSet(c, f),
                "unsupported blueprint customizations found for boot ISO image type"),
           Rule(t.name = "edge-raw-image" /\ options.OSTree.FetchChecksum = "",
                "edge raw images require specifying a URL from which to retrieve the OSTree commit"),
           Rule(c.KernelAppend # "" /\ t.rpmOstree /\ (~t.bootable \/ t.bootISO),
                "kernel boot parameter customizations are not supported for ostree types"),
           Rule(~IsNil(c.Filesystem) /\ t.rpmOstree,
                "Custom mountpoints are not supported for ostree types"),
           Rule(~IsNil(c.Filesystem)
                  /\ \E i \in DOMAIN Deref(c.Filesystem) :
                        Deref(c.Filesystem)[i] \notin policy,
                "The following custom mountpoints are not supported"),
           Rule(hasOSC /\ (~Deref(t.arch).distro.isRHEL
                           \/ VersionLessThan(Deref(t.arch).distro.osVersion, <<8, 7>>)),
                "OpenSCAP unsupported os version"),
           Rule(hasOSC /\ Deref(c.OpenSCAP).ProfileID \notin oscapProfileAllowList,
                "OpenSCAP unsupported profile"),
           Rule(hasOSC /\ t.rpmOstree,
                "OpenSCAP customizations are not supported for ostree types"),
           Rule(hasOSC /\ Deref(c.OpenSCAP).DataStream = "",
                "OpenSCAP datastream cannot be empty"),
           Rule(hasOSC /\ Deref(c.OpenSCAP).ProfileID = "",
                "OpenSCAP profile cannot be empty") >>

\* The rules of the table that the request of the call violates.
Violated ==
    LET rules == RuleTable(args.policy, args.t, args.c, args.options,
                           args.containers)
    IN  { i \in DOMAIN rules : rules[i].violated }

\* The error of the first rule of the table that the request violates.
FirstViolated ==
    LET rules == RuleTable(args.policy, args.t, args.c, args.options,
                           args.containers)
    IN  IF Violated = {} THEN ""
        ELSE rules[CHOOSE i \in Violated : \A j \in Violated : i <= j].err

\* C15: checkOptions returns the error of the first rule, in the order of
\* the rule table, that the request violates, whatever later rules the
\* request violates as well; it returns no error when no rule is violated.
C15_FirstViolatedRuleWins ==
    Checked => ret.err = FirstViolated

\* A request that violates the OSTree mountpoint rule and two more rules
\* after it has been answered with the error of the mountpoint rule.
C15_Witness ==
    /\ Checked
    /\ Cardinality(Violated) >= 3
    /\ FirstViolated = "Custom mountpoints are not supported for ostree types"
    /\ ret.err = FirstViolated

----------------------------------------------------------------------------
(***************************************************************************)
(* Size.  A uint64 is the triple <<l0, l1, l2>> of its low 20 bits, its    *)
(* next 20 bits and its high 24 bits: its value is                         *)
(* l0 + l1 * 2^20 + l2 * 2^40.  The limbs follow common.MebiByte = 2^20,   *)
(* so that size % MebiByte is l0 and size / MebiByte is <<l1, l2>>, and    *)
(* the arithmetic of Size is exact, with the wrap-around of 64 bits.       *)
(***************************************************************************)

\* common.MebiByte
MebiByte == 1048576

\* The width of a uint64.
Width == 64

\* The base of the high limb: 2^24.
HighBase == 2 ^ (Width - 40)

Zero64 == <<0, 0, 0>>

\* size % common.MebiByte
ModMebiByte(size) == size[1]

\* size / common.MebiByte, a number below 2^44: <<low 20 bits, high 24 bits>>
DivMebiByte(size) == <<size[2], size[3]>>

\* q + 1 for a number q below 2^44 (the sum is at most 2^44, and fits a
\* uint64: its high limb may reach HighBase)
Inc(q) ==
    IF q[1] + 1 = MebiByte THEN <<0, q[2] + 1>> ELSE <<q[1] + 1, q[2]>>

\* q * common.MebiByte in uint64 arithmetic: the bits above the 64th are lost
MulMebiByte(q) == <<0, q[1], q[2] % HighBase>>

\* imageType.Size
Size(t, size) ==
    LET rounded == IF t.name = "vhd" /\ ModMebiByte(size) # 0
                   THEN MulMebiByte(Inc(DivMebiByte(size)))
                   ELSE size
    IN  IF rounded = Zero64 THEN t.defaultSize ELSE rounded

\* a < b and a <= b for two uint64
Less64(a, b) ==
    \/ a[3] < b[3]
    \/ a[3] = b[3] /\ a[2] < b[2]
    \/ a[3] = b[3] /\ a[2] = b[2] /\ a[1] < b[1]

LessEq64(a, b) == a = b \/ Less64(a, b)

(***************************************************************************)
(* Specification SpecSize: one call of Size on an image type and a size.   *)
(***************************************************************************)

\* The limbs of the requested sizes: the least, the next and the greatest.
LowLimbs == {0, 1, MebiByte - 1}
HighLimbs == {0, 1, HighBase - 1}

Sizes == LowLimbs \X LowLimbs \X HighLimbs

\* The default sizes of the image types: none, and 4 GiB.
DefaultSizes == { Zero64, <<0, 4096, 0>> }

SizeRequests ==
    [ t    : { [t EXCEPT !.defaultSize = d] :
                 t \in ImageTypes({FALSE}, {DefaultDistro}), d \in DefaultSizes },
      size : Sizes ]

InitSize ==
    /\ op = ""
    /\ args \in SizeRequests
    /\ ret = None
    /\ ret2 = None
    /\ NoRegistry

CallSize ==
    /\ op = ""
    /\ op' = "Size"
    /\ ret' = [ size |-> Size(args.t, args.size) ]
    /\ UNCHANGED <<args, ret2, regVars>>

NextSize == CallSize

SpecSize == InitSize /\ [][NextSize]_vars

Sized == op = "Size"

\* r is the smallest multiple of 1 MiB that is greater than or equal to s:
\* s itself when s is a multiple, and otherwise the multiple that follows
\* s / MebiByte, which a uint64 holds only when its high limb is below
\* HighBase.
IsRoundedUp(s, r) ==
    IF ModMebiByte(s) = 0
    THEN r = s
    ELSE /\ ModMebiByte(r) = 0
         /\ DivMebiByte(r) = Inc(DivMebiByte(s))
         /\ r[3] < HighBase
         /\ Less64(s, r)

\* C7: Size(s) of vhd with s > 0 is the smallest multiple of 1 MiB greater
\* than or equal to s; Size(s) of any other image type with s > 0 is s;
\* Size(0) is the default size of the image type.
C7_SizeRoundsVhdOnly ==
    Sized =>
        /\ (args.t.name = "vhd" /\ args.size # Zero64)
              => IsRoundedUp(args.size, ret.size)
        /\ (args.t.name # "vhd" /\ args.size # Zero64)
              => ret.size = args.size
        /\ args.size = Zero64 => ret.size = args.t.defaultSize

\* The sizes that can be rounded up within 64 bits.
Roundable(s) == ModMebiByte(s) = 0 \/ DivMebiByte(s) # <<MebiByte - 1, HighBase - 1>>

\* The statement of C7 for the sizes that can be rounded up within 64 bits.
SizeRoundsVhdOnlyBelowWrap ==
    Sized =>
        /\ (args.t.name = "vhd" /\ args.size # Zero64 /\ Roundable(args.size))
              => IsRoundedUp(args.size, ret.size)
        /\ (args.t.name # "vhd" /\ args.size # Zero64)
              => ret.size = args.size
        /\ args.size = Zero64 => ret.size = args.t.defaultSize


\* C21: Size of a size s other than 0 is never smaller than s, for every
\* image type: the rounding of vhd does not wrap around to a smaller value
\* or to the default size.
C21_SizeNeverSmaller ==
    (Sized /\ args.size # Zero64) => LessEq64(args.size, ret.size)

----------------------------------------------------------------------------
(***************************************************************************)
(* Manifest, ManifestNew and initializeManifest.                           *)
(*                                                                         *)
(* The pipeline function t.pipelines, the image function t.image and the   *)
(* serialization are function values and library code: a request carries   *)
(* in fn what each of them answers (the error it returns, "" for none).    *)
(* What they build is kept as the record of the inputs they were given.    *)
(*                                                                         *)
(* A call returns, besides its results, the trace of the steps it took.    *)
(***************************************************************************)

\* distro.Manifest{}: the empty manifest returned beside an error.
EmptyManifest ==
    [ Version |-> "", Pipelines |-> <<>>,
      Sources |-> [ packages |-> <<>>, commits |-> <<>>, inline |-> <<>>,
                    containers |-> <<>> ] ]

\* The orders in which a range over a map with the keys S may enumerate them.
Orders(S) ==
    { o \in [1..Cardinality(S) -> S] : \A i, j \in DOMAIN o : i # j => o[i] # o[j] }

\* Flatten that assigns the specs of a package set where it should append
\* them: the specs of the last set are all that is left.
Flatten_lastOnly(packageSpecSets, order) ==
    IF order = <<>> THEN <<>> ELSE packageSpecSets[order[Len(order)]]

\* The specs of the package sets appended in the order the keys came in.
RECURSIVE Flatten(_, _)
Flatten(packageSpecSets, order) ==
    IF order = <<>> THEN <<>>
    ELSE packageSpecSets[Head(order)] \o Flatten(packageSpecSets, Tail(order))

\* What t.pipelines returns on success: the pipelines, as the inputs they
\* were built from.
pipelines(t, c, options, repos, packageSpecSets, containers, seed) ==
    << [ name |-> "build", t |-> t.name, seed |-> seed, repos |-> repos,
         packages |-> packageSpecSets, customizations |-> c,
         options |-> options, containers |-> containers ] >>

\* commits that asks for the URL only.
commits_urlOnly(options) ==
    IF options.OSTree.URL # ""
    THEN << [ Checksum   |-> options.OSTree.FetchChecksum,
              URL        |-> options.OSTree.URL,
              ContentURL |-> options.OSTree.ContentURL,
              Secrets    |-> IF options.OSTree.RHSM
                             THEN "org.osbuild.rhsm.consumer" ELSE "" ] >>
    ELSE <<>>

\* The OSTree commit inputs of Manifest.
commits(options) ==
    IF options.OSTree.FetchChecksum # "" /\ options.OSTree.URL # ""
    THEN << [ Checksum   |-> options.OSTree.FetchChecksum,
              URL        |-> options.OSTree.URL,
              ContentURL |-> options.OSTree.ContentURL,
              Secrets    |-> IF options.OSTree.RHSM
                             THEN "org.osbuild.rhsm.consumer" ELSE "" ] >>
    ELSE <<>>

\* The inline sources of Manifest: the FDO root certificates, if any.
inlineData(c) ==
    IF ~IsNil(c.FDO) /\ Deref(c.FDO).DiunPubKeyRootCerts # ""
    THEN << Deref(c.FDO).DiunPubKeyRootCerts >>
    ELSE <<>>

\* initializeManifest that validates the options after it has called the
\* image function.
initializeManifest_buildsFirst(t, bp, options, repos, packageSets, containers, seed, fn) ==
    IF ~t.image
    THEN [ manifest |-> Nil, err |-> "",
           trace    |-> <<"rand.NewSource", "checkOptions">> ]
    ELSE IF fn.build # ""
    THEN [ manifest |-> Nil, err |-> fn.build,
           trace    |-> <<"rand.NewSource", "image">> ]
    ELSE IF checkOptions(t, bp.Customizations, options, containers) # ""
    THEN [ manifest |-> Nil,
           err      |-> checkOptions(t, bp.Customizations, options, containers),
           trace    |-> <<"rand.NewSource", "image", "checkOptions">> ]
    ELSE [ manifest |-> Ptr([ t |-> t.name, seed |-> seed, repos |-> repos,
                              workload |-> bp.Packages,
                              packageSets |-> packageSets,
                              customizations |-> bp.Customizations,
                              options |-> options,
                              containers |-> containers ]),
           err      |-> fn.instantiate,
           trace    |-> <<"rand.NewSource", "image", "checkOptions",
                          "InstantiateManifest">> ]

\* initializeManifest; bp is the blueprint, of which the customizations
\* are read.  The manifest it returns is nil or the image's manifest.
initializeManifest(t, bp, options, repos, packageSets, containers, seed, fn) ==
    IF checkOptions(t, bp.Customizations, options, containers) # ""
    THEN [ manifest |-> Nil,
           err      |-> checkOptions(t, bp.Customizations, options, containers),
           trace    |-> <<"checkOptions">> ]
    ELSE IF ~t.image
    THEN [ manifest |-> Nil, err |-> "",
           trace    |-> <<"checkOptions", "rand.NewSource">> ]
    ELSE IF fn.build # ""
    THEN [ manifest |-> Nil, err |-> fn.build,
           trace    |-> <<"checkOptions", "rand.NewSource", "image">> ]
    ELSE IF fn.instantiate # ""
    THEN [ manifest |-> Nil, err |-> fn.instantiate,
           trace    |-> <<"checkOptions", "rand.NewSource", "image",
                          "InstantiateManifest">> ]
    ELSE [ manifest |-> Ptr([ t |-> t.name, seed |-> seed, repos |-> repos,
                              workload |-> bp.Packages,
                              packageSets |-> packageSets,
                              customizations |-> bp.Customizations,
                              options |-> options,
                              containers |-> containers ]),
           err      |-> "",
           trace    |-> <<"checkOptions", "rand.NewSource", "image",
                          "InstantiateManifest">> ]

\* The names of the package sets in the order of the image's pipelines.
PipelineOrder(packageSets) ==
    LET known == <<"build", "packages", "blueprint">>
    IN  SelectSeq(known, LAMBDA n : n \in DOMAIN packageSets)

\* manifest.Serialize(packageSets): the manifest of the image's pipelines.
Serialize(manifest, packageSets, fn) ==
    IF fn.serialize # ""
    THEN [ manifest |-> EmptyManifest, err |-> fn.serialize ]
    ELSE [ manifest |->
             [ Version   |-> "2",
               Pipelines |-> << [manifest EXCEPT !.packageSets = packageSets] >>,
               Sources   |-> [ packages   |-> Flatten(packageSets,
                                                PipelineOrder(packageSets)),
                               commits    |-> commits(manifest.options),
                               inline     |-> inlineData(manifest.customizations),
                               containers |-> manifest.containers ] ],
           err |-> "" ]

\* ManifestNew
ManifestNew(t, c, options, repos, packageSets, containers, seed, fn) ==
    LET bp == [ Name |-> "empty blueprint", Packages |-> <<>>,
                Customizations |-> c, Containers |-> <<>> ]
        m  == initializeManifest(t, bp, options, repos, <<>>, containers, seed, fn)
    IN  IF m.err # ""
        THEN [ manifest |-> EmptyManifest, err |-> m.err, panic |-> FALSE,
               trace |-> m.trace ]
        ELSE IF IsNil(m.manifest)
        THEN [ manifest |-> EmptyManifest, err |-> "", panic |-> TRUE,
               trace |-> m.trace ]
        ELSE LET r == Serialize(Deref(m.manifest), packageSets, fn)
             IN  [ manifest |-> r.manifest, err |-> r.err, panic |-> FALSE,
                   trace |-> Append(m.trace, "Serialize") ]

\* ManifestLegacy that goes on to assemble the manifest when the pipeline
\* function has failed, and returns it beside the error.
ManifestLegacy_partialOnError(t, c, options, repos, packageSpecSets, containers, seed, fn, order) ==
    IF checkOptions(t, c, options, containers) # ""
    THEN [ manifest |-> EmptyManifest,
           err      |-> checkOptions(t, c, options, containers),
           panic    |-> FALSE,
           trace    |-> <<"checkOptions">> ]
    ELSE [ manifest |->
             [ Version   |-> "2",
               Pipelines |-> IF fn.build # "" THEN <<>>
                             ELSE pipelines(t, c, options, repos, packageSpecSets,
                                            containers, seed),
               Sources   |-> [ packages   |-> Flatten(packageSpecSets, order),
                               commits    |-> commits(options),
                               inline     |-> inlineData(c),
                               containers |-> containers ] ],
           err   |-> fn.build,
           panic |-> FALSE,
           trace |-> <<"checkOptions", "rand.NewSource", "pipelines">> ]

\* The legacy path of Manifest, which builds the pipelines with t.pipelines.
\* order is the order in which the range over packageSpecSets enumerates
\* its keys.
ManifestLegacy(t, c, options, repos, packageSpecSets, containers, seed, fn, order) ==
    IF checkOptions(t, c, options, containers) # ""
    THEN [ manifest |-> EmptyManifest,
           err      |-> checkOptions(t, c, options, containers),
           panic    |-> FALSE,
           trace    |-> <<"checkOptions">> ]
    ELSE IF fn.build # ""
    THEN [ manifest |-> EmptyManifest, err |-> fn.build, panic |-> FALSE,
           trace    |-> <<"checkOptions", "rand.NewSource", "pipelines">> ]
    ELSE [ manifest |->
             [ Version   |-> "2",
               Pipelines |-> pipelines(t, c, options, repos, packageSpecSets,
                                       containers, seed),
               Sources   |-> [ packages   |-> Flatten(packageSpecSets, order),
                               commits    |-> commits(options),
                               inline     |-> inlineData(c),
                               containers |-> containers ] ],
           err   |-> "",
           panic |-> FALSE,
           trace |-> <<"checkOptions", "rand.NewSource", "pipelines">> ]

\* imageType.Manifest
Manifest(t, c, options, repos, packageSpecSets, containers, seed, fn, order) ==
    IF t.image
    THEN ManifestNew(t, c, options, repos, packageSpecSets, containers, seed, fn)
    ELSE ManifestLegacy(t, c, options, repos, packageSpecSets, containers,
                        seed, fn, order)


----------------------------------------------------------------------------
(***************************************************************************)
(* Specification SpecManifest: a request is compiled with Manifest, and    *)
(* compiled a second time with the same inputs; or it is compiled with     *)
(* ManifestNew.                                                            *)
(***************************************************************************)

\* The longest list of resolved package specs of one package set.
MaxSpecs == 1

\* rpmmd.PackageSpec
PackageSpecs == {"bash-5.1", "glibc-2.28"}

\* The names of the package sets of a depsolve result.
buildPkgsKey == "build"
osPkgsKey == "packages"
blueprintPkgsKey == "blueprint"

\* map[string][]rpmmd.PackageSpec over some of the names
PackageSpecSets ==
    UNION { [names -> SeqsUpTo(PackageSpecs, MaxSpecs)] :
              names \in SUBSET {buildPkgsKey, osPkgsKey} }

\* A valid request to the simplified installer that carries root
\* certificates.
FDOCertsCustomizations ==
    [ EmptyCustomizations EXCEPT
        !.InstallationDevice = "/dev/sda",
        !.FDO = Ptr([ ManufacturingServerURL |-> "http://fdo",
                      DiunPubKeyHash         |-> "",
                      DiunPubKeyInsecure     |-> "",
                      DiunPubKeyRootCerts    |-> "certs" ]) ]

\* A request for a mountpoint that the mountpoint policy refuses.
BadMountpointCustomizations ==
    [ EmptyCustomizations EXCEPT !.Filesystem = Ptr(<<"/etc">>) ]

\* What the function values answer: all succeed, or one of them fails.
NoFailure == [ build |-> "", instantiate |-> "", serialize |-> "" ]

Failures ==
    { NoFailure,
      [ NoFailure EXCEPT !.build = "building the image failed" ],
      [ NoFailure EXCEPT !.instantiate = "instantiating the manifest failed" ],
      [ NoFailure EXCEPT !.serialize = "json: unsupported value" ] }

ManifestRequests ==
    [ t               : { t \in ImageTypes(BOOLEAN, {DefaultDistro}) : t.bootable },
      c               : { EmptyCustomizations, FDOCertsCustomizations,
                          BadMountpointCustomizations },
      options         : Options({"", "sha"}, {"", "http://ostree"}, BOOLEAN),
      repos           : {<<>>},
      packageSpecSets : PackageSpecSets,
      containers      : {<<>>, <<Container>>},
      seed            : {0},
      fn              : Failures ]

InitManifest ==
    /\ op = ""
    /\ args \in ManifestRequests
    /\ ret = None
    /\ ret2 = None
    /\ NoRegistry

\* A compile; the runtime picks the order of the range over the map.
CallManifest ==
    /\ op = ""
    /\ op' = "Manifest"
    /\ \E order \in Orders(DOMAIN args.packageSpecSets) :
          ret' = Manifest(args.t, args.c, args.options, args.repos,
                          args.packageSpecSets, args.containers, args.seed,
                          args.fn, order)
    /\ UNCHANGED <<args, ret2, regVars>>

\* The second compile of the same request.
CallManifestAgain ==
    /\ op = "Manifest"
    /\ op' = "Manifest twice"
    /\ \E order \in Orders(DOMAIN args.packageSpecSets) :
          ret2' = Manifest(args.t, args.c, args.options, args.repos,
                           args.packageSpecSets, args.containers, args.seed,
                           args.fn, order)
    /\ UNCHANGED <<args, ret, regVars>>

CallManifestNew ==
    /\ op = ""
    /\ op' = "ManifestNew"
    /\ ret' = ManifestNew(args.t, args.c, args.options, args.repos,
                          args.packageSpecSets, args.containers, args.seed,
                          args.fn)
    /\ UNCHANGED <<args, ret2, regVars>>

NextManifest == CallManifest \/ CallManifestAgain \/ CallManifestNew

SpecManifest == InitManifest /\ [][NextManifest]_vars

Compiled == op \in {"Manifest", "Manifest twice", "ManifestNew"}

\* C1: two compiles of identical inputs produce identical manifests,
\* the order of the flattened package specs handed to the sources included.
C1_ManifestDeterministic ==
    op = "Manifest twice" => ret2 = ret

\* The number of times x occurs in the sequence q.
Count(q, x) == Cardinality({ i \in DOMAIN q : q[i] = x })

\* The number of times x occurs in the package sets of the names S.
RECURSIVE Supplied(_, _, _)
Supplied(packageSpecSets, S, x) ==
    IF S = {} THEN 0
    ELSE LET n == CHOOSE n \in S : TRUE
         IN  Count(packageSpecSets[n], x)
             + Supplied(packageSpecSets, S \ {n}, x)

\* The request of C8: the legacy path, an image type that is not
\* OSTree-based, the empty customizations, no OSTree options.
C8_Request ==
    /\ op \in {"Manifest", "Manifest twice"}
    /\ ~args.t.image /\ ~args.t.rpmOstree
    /\ args.c = EmptyCustomizations
    /\ args.options.OSTree.FetchChecksum = ""
    /\ args.options.OSTree.URL = ""

\* C8: such a compile fails only when the pipeline function fails, and
\* yields otherwise a manifest of version "2" whose sources hold every
\* supplied package spec as often as it was supplied and nothing else, no
\* commit and no inline data.
C8_PlainManifest ==
    C8_Request =>
        /\ ret.err = args.fn.build
        /\ ret.err = "" =>
             /\ ret.manifest.Version = "2"
             /\ \A x \in PackageSpecs :
                   Count(ret.manifest.Sources.packages, x)
                     = Supplied(args.packageSpecSets,
                                DOMAIN args.packageSpecSets, x)
             /\ \A i \in DOMAIN ret.manifest.Sources.packages :
                   ret.manifest.Sources.packages[i] \in PackageSpecs
             /\ ret.manifest.Sources.commits = <<>>
             /\ ret.manifest.Sources.inline = <<>>

\* C8 witness: a manifest of two package sets that supply the same spec.
C8_Witness ==
    /\ C8_Request /\ ret.err = ""
    /\ DOMAIN args.packageSpecSets = {buildPkgsKey, osPkgsKey}
    /\ args.packageSpecSets[buildPkgsKey] = <<"bash-5.1">>
    /\ args.packageSpecSets[osPkgsKey] = <<"bash-5.1">>
    /\ Len(ret.manifest.Sources.packages) = 2

\* The error of the validator for the request.
ValidatorError ==
    checkOptions(args.t, args.c, args.options, args.containers)

\* The pipeline function or the image function is part of the call.
Builds == op \in {"Manifest", "Manifest twice"} \/ args.t.image

\* C9: when the validator or the construction of the pipelines or of the
\* image fails, Manifest and ManifestNew return that error and the empty
\* manifest; no manifest is returned beside an error.
C9_ErrorMeansEmptyManifest ==
    (Compiled /\ ~ret.panic) =>
        /\ ValidatorError # "" => ret.err = ValidatorError
        /\ (ValidatorError = "" /\ Builds /\ args.fn.build # "")
              => ret.err = args.fn.build
        /\ ret.err # "" => ret.manifest = EmptyManifest

\* C9 witness: the pipeline function of the legacy path failed.
C9_Witness ==
    /\ op = "Manifest" /\ ~args.t.image
    /\ ValidatorError = ""
    /\ ret.err = "building the image failed"
    /\ ret.manifest = EmptyManifest

\* The steps of a compile after the validation.
LaterSteps == {"rand.NewSource", "pipelines", "image", "InstantiateManifest",
               "Serialize"}

\* C10: in every compile checkOptions is the first step, and when it fails
\* it is the only one: the random source is not created and the pipeline or
\* image function, with the partition table it derives, is not called.
C10_ValidationFirst ==
    Compiled =>
        /\ Len(ret.trace) >= 1 /\ ret.trace[1] = "checkOptions"
        /\ \A i \in 2..Len(ret.trace) : ret.trace[i] \in LaterSteps
        /\ ValidatorError # "" => ret.trace = <<"checkOptions">>

\* C10 witness: a compile on the image-function path that the validator
\* stopped.
C10_Witness ==
    /\ op = "Manifest" /\ args.t.image
    /\ ValidatorError # ""
    /\ ret.trace = <<"checkOptions">>


\* The legacy path has returned a manifest.
LegacyManifest == op = "Manifest" /\ ~args.t.image /\ ret.err = ""

\* The request names an OSTree commit: a checksum and a URL.
NamesCommit ==
    args.options.OSTree.FetchChecksum # "" /\ args.options.OSTree.URL # ""

\* C18: the manifest of the legacy path has one OSTree commit source, with
\* the checksum and the URL of the options, when both are non-empty, and
\* none otherwise; the commit source refers to the consumer secrets exactly
\* when the options set RHSM.
C18_OneCommitSource ==
    LegacyManifest =>
        LET cs == ret.manifest.Sources.commits
        IN  /\ NamesCommit =>
                  /\ Len(cs) = 1
                  /\ cs[1].Checksum = args.options.OSTree.FetchChecksum
                  /\ cs[1].URL = args.options.OSTree.URL
                  /\ args.options.OSTree.RHSM
                        => cs[1].Secrets = "org.osbuild.rhsm.consumer"
                  /\ ~args.options.OSTree.RHSM => cs[1].Secrets = ""
            /\ ~NamesCommit => Len(cs) = 0

\* A manifest of the legacy path with a commit source that refers to the
\* consumer secrets.
C18_Witness ==
    /\ LegacyManifest
    /\ NamesCommit
    /\ args.options.OSTree.RHSM
    /\ Len(ret.manifest.Sources.commits) = 1
    /\ ret.manifest.Sources.commits[1].Secrets = "org.osbuild.rhsm.consumer"


----------------------------------------------------------------------------
(***************************************************************************)
(* PackageSets, PackageSetsNew and getPartitionTable.                      *)
(***************************************************************************)

\* rpmmd.PackageSet and its Append
PackageSet(include, exclude) ==
    [ Include |-> include, Exclude |-> exclude, Repositories |-> <<>> ]

AppendSet(a, b) ==
    [ Include      |-> a.Include \o b.Include,
      Exclude      |-> a.Exclude \o b.Exclude,
      Repositories |-> a.Repositories \o b.Repositories ]

\* rockyCommitPackageSet, a few of its packages
rockyCommitPackageSet ==
    PackageSet(<<"kernel", "lvm2", "rpm-ostree">>, <<"mozjs78">>)

\* t.getPackages(name): the package set of the constructor of that name,
\* the empty set when there is none.
getPackages(t, name) ==
    IF name \notin t.packageSets THEN PackageSet(<<>>, <<>>)
    ELSE IF name = osPkgsKey THEN rockyCommitPackageSet
    ELSE PackageSet(<<"rpm">>, <<>>)

\* pt.ContainsMountpoint(mountpoint); the zero partition table of an
\* architecture without base partition table contains none.
ContainsMountpoint(basePT, mountpoint) ==
    ~IsNil(basePT) /\ mountpoint \in Deref(basePT)

\* Whether the filesystem customizations ask for a mountpoint that the base
\* partition table does not have (the loop stops at the first).
haveNewMountpoint(t, c) ==
    /\ ~IsNil(c.Filesystem)
    /\ \E i \in 1..Len(Deref(c.Filesystem)) :
          ~ContainsMountpoint(t.basePT, Deref(c.Filesystem)[i])

\* bpPackages of PackageSets that adds lvm2 for a new mountpoint on every
\* image type.
bpPackages_lvmAlways(t, bp) ==
    bp.Packages
    \o (IF ~IsNil(bp.Customizations.Timezone) THEN <<"chrony">> ELSE <<>>)
    \o (IF haveNewMountpoint(t, bp.Customizations) THEN <<"lvm2">> ELSE <<>>)
    \o (IF ~IsNil(bp.Customizations.OpenSCAP)
        THEN <<"openscap-scanner", "scap-security-guide">> ELSE <<>>)

\* bpPackages of PackageSets: the packages of the blueprint and the
\* packages its customizations call for.
bpPackages(t, bp) ==
    bp.Packages
    \o (IF ~IsNil(bp.Customizations.Timezone) THEN <<"chrony">> ELSE <<>>)
    \o (IF ~t.rpmOstree /\ haveNewMountpoint(t, bp.Customizations)
        THEN <<"lvm2">> ELSE <<>>)
    \o (IF ~IsNil(bp.Customizations.OpenSCAP)
        THEN <<"openscap-scanner", "scap-security-guide">> ELSE <<>>)

\* The packages of the build root for embedded containers.
extraPkgs(t) ==
    IF t.rpmOstree
    THEN PackageSet(<<"skopeo", "python3-pytoml">>, <<>>)
    ELSE PackageSet(<<"skopeo">>, <<>>)

\* mergedSets of PackageSets, as handed to distro.MakePackageSetChains.
mergedSets(t, bp) ==
    [ name \in t.packageSets \cup {osPkgsKey, blueprintPkgsKey} |->
        IF name = blueprintPkgsKey
        THEN PackageSet(bpPackages(t, bp), <<>>)
        ELSE IF name = osPkgsKey
        THEN AppendSet(getPackages(t, name),
                       PackageSet(<<bp.Customizations.KernelName>>, <<>>))
        ELSE IF name = buildPkgsKey /\ Len(bp.Containers) > 0
        THEN AppendSet(getPackages(t, name), extraPkgs(t))
        ELSE getPackages(t, name) ]

\* t.OSTreeRef()
OSTreeRef(t) == IF t.rpmOstree THEN "scos/rocky8/x86_64/os" ELSE ""

\* newOptions that sets the image ref only.
newOptions_noPlaceholder(t, options) ==
    [ options EXCEPT !.OSTree.ImageRef = OSTreeRef(t) ]

\* The options of PackageSetsNew after the stand-in checksum and the
\* image ref are set in its copy of them.
newOptions(t, options) ==
    [ options EXCEPT
        !.OSTree.FetchChecksum =
            IF t.rpmOstree /\ t.bootISO /\ @ = ""
            THEN "ffffffffffffffffffffffffffffffffffffffffffffffffffffffffffffffff"
            ELSE @,
        !.OSTree.ImageRef = OSTreeRef(t) ]

\* The package sets of PackageSetsNew with their repositories: a repository
\* that lists package sets goes to those, the others are the global ones.
RECURSIVE withRepos(_, _)
withRepos(packageSets, repos) ==
    IF repos = <<>> THEN packageSets
    ELSE LET repo == Head(repos)
             next == [ name \in DOMAIN packageSets \cup repo.PackageSets |->
                         LET ps == IF name \in DOMAIN packageSets
                                   THEN packageSets[name]
                                   ELSE PackageSet(<<>>, <<>>)
                         IN  IF name \in repo.PackageSets
                             THEN [ps EXCEPT !.Repositories = Append(@, repo.name)]
                             ELSE ps ]
         IN  withRepos(next, Tail(repos))

globalRepos(repos) == SelectSeq(repos, LAMBDA r : r.PackageSets = {})

\* container.Spec of the containers of the blueprint
containerSpecs(bp) ==
    [ i \in DOMAIN bp.Containers |->
        [ Source |-> bp.Containers[i].Source, LocalName |-> bp.Containers[i].Name ] ]

\* manifest.GetPackageSetChains(): the chains of the image's pipelines.
GetPackageSetChains(manifest) == manifest.packageSets

\* PackageSetsNew that returns the chains of its package sets when the
\* manifest could not be initialized.
PackageSetsNew_chainsOnError(t, bp, options, repos, fn) ==
    LET packageSets == withRepos([ name \in t.packageSets |-> getPackages(t, name) ],
                                 repos)
        m == initializeManifest(t, bp, newOptions(t, options), globalRepos(repos),
                                packageSets, containerSpecs(bp), 0, fn)
    IN  [ panic     |-> FALSE,
          chains    |-> Ptr(packageSets),
          blueprint |-> bp.Packages,
          trace     |-> m.trace,
          logged    |-> m.err,
          options   |-> newOptions(t, options) ]

\* PackageSetsNew.  blueprint is the list of the packages that come from
\* the blueprint: the packages of the workload; logged is the error of
\* initializeManifest, which PackageSetsNew logs and does not return;
\* options is the copy of the options that PackageSetsNew has changed and
\* given to initializeManifest.
PackageSetsNew(t, bp, options, repos, fn) ==
    LET packageSets == withRepos([ name \in t.packageSets |-> getPackages(t, name) ],
                                 repos)
        m == initializeManifest(t, bp, newOptions(t, options), globalRepos(repos),
                                packageSets, containerSpecs(bp), 0, fn)
    IN  IF m.err # ""
        THEN [ panic |-> FALSE, chains |-> Nil, blueprint |-> <<>>,
               trace |-> m.trace, logged |-> m.err,
               options |-> newOptions(t, options) ]
        ELSE IF IsNil(m.manifest)
        THEN [ panic |-> TRUE, chains |-> Nil, blueprint |-> <<>>,
               trace |-> m.trace, logged |-> "",
               options |-> newOptions(t, options) ]
        ELSE [ panic     |-> FALSE,
               chains    |-> Ptr(GetPackageSetChains(Deref(m.manifest))),
               blueprint |-> Deref(m.manifest).workload,
               trace     |-> m.trace,
               logged    |-> "",
               options   |-> newOptions(t, options) ]

\* The legacy path of PackageSets.
PackageSetsLegacy(t, bp, options, repos) ==
    IF buildPkgsKey \notin t.packageSets
    THEN [ panic |-> TRUE, chains |-> Nil, blueprint |-> <<>>, trace |-> <<>>,
           logged |-> "", options |-> options ]
    ELSE [ panic     |-> FALSE,
           chains    |-> Ptr(mergedSets(t, bp)),
           blueprint |-> mergedSets(t, bp)[blueprintPkgsKey].Include,
           trace     |-> <<>>,
           logged    |-> "",
           options   |-> options ]

\* imageType.PackageSets
PackageSets(t, bp, options, repos, fn) ==
    IF t.image
    THEN PackageSetsNew(t, bp, options, repos, fn)
    ELSE PackageSetsLegacy(t, bp, options, repos)

\* getPartitionTable: the error of an architecture without base partition
\* table, or the call of disk.NewPartitionTable with its arguments.
getPartitionTable(t, mountpoints, options) ==
    IF IsNil(t.basePT)
    THEN [ err |-> "unknown arch", call |-> Nil ]
    ELSE [ err  |-> "",
           call |-> Ptr([ basePartitionTable |-> Deref(t.basePT),
                          mountpoints        |-> mountpoints,
                          imageSize          |-> Size(t, options.Size),
                          lvmify             |-> ~t.rpmOstree ]) ]


(***************************************************************************)
(* Specification SpecPkg: one call of PackageSets or of getPartitionTable  *)
(* for an image type, a blueprint and options.                             *)
(***************************************************************************)

\* Customizations that bear on the package sets.
PkgCustomizations ==
    [ InstallationDevice : {""},
      FDO                : {Nil},
      KernelAppend       : {""},
      KernelName         : {"kernel"},
      Filesystem         : FsCustomizations,
      OpenSCAP           : {Nil, Ptr([ProfileID |-> "ospp", DataStream |-> "ds.xml"])},
      User               : {Nil},
      Timezone           : {Nil, Ptr("UTC")} ]

\* blueprint.Blueprint
Blueprints ==
    [ Name           : {"blueprint"},
      Packages       : {<<>>, <<"lvm2">>},
      Customizations : PkgCustomizations,
      Containers     : {<<>>, <<[Source |-> "registry/image", Name |-> "image"]>>} ]

\* The image types of the requests: with and without a base partition
\* table for the architecture, with and without a build package set.
PkgImageTypes ==
    { [t EXCEPT !.basePT = pt, !.packageSets = ps] :
        t \in { x \in ImageTypes(BOOLEAN, {DefaultDistro}) : x.bootable },
        pt \in {Nil, Ptr({"/", "/boot"})},
        ps \in {{buildPkgsKey, osPkgsKey}, {osPkgsKey}} }

\* rpmmd.RepoConfig: a repository for every package set and one for the
\* build package set.
Repos ==
    << [name |-> "baseos", PackageSets |-> {}],
       [name |-> "build-tools", PackageSets |-> {buildPkgsKey}] >>

PkgRequests ==
    [ t       : PkgImageTypes,
      bp      : Blueprints,
      options : Options({"", "sha"}, {""}, {FALSE}),
      repos   : {Repos},
      fn      : { NoFailure,
                  [ NoFailure EXCEPT !.build = "building the image failed" ] } ]

InitPkg ==
    /\ op = ""
    /\ args \in PkgRequests
    /\ ret = None
    /\ ret2 = None
    /\ NoRegistry

CallPackageSets ==
    /\ op = ""
    /\ op' = "PackageSets"
    /\ ret' = PackageSets(args.t, args.bp, args.options, args.repos, args.fn)
    /\ UNCHANGED <<args, ret2, regVars>>

CallGetPartitionTable ==
    /\ op = ""
    /\ op' = "getPartitionTable"
    /\ ret' = getPartitionTable(args.t, args.bp.Customizations.Filesystem,
                                args.options)
    /\ UNCHANGED <<args, ret2, regVars>>

\* The package specs the depsolve of the request resolves to.
ResolvedSpecs(t) == [ name \in t.packageSets |-> <<"bash-5.1">> ]

\* The compile of the request whose package sets PackageSets has returned:
\* Manifest with the customizations and the containers of the blueprint and
\* the options the caller gave to PackageSets.
CallManifestAfterPackageSets ==
    /\ op = "PackageSets"
    /\ op' = "PackageSets, Manifest"
    /\ \E order \in Orders(args.t.packageSets) :
          ret2' = Manifest(args.t, args.bp.Customizations, args.options,
                           args.repos, ResolvedSpecs(args.t),
                           containerSpecs(args.bp), 0, args.fn, order)
    /\ UNCHANGED <<args, ret, regVars>>

NextPkg ==
    \/ CallPackageSets
    \/ CallGetPartitionTable
    \/ CallManifestAfterPackageSets

SpecPkg == InitPkg /\ [][NextPkg]_vars

\* C6: for an image type with rpmOstree, PackageSets adds no lvm2 to the
\* packages that come from the blueprint (the list holds lvm2 no more often
\* than the blueprint asks for it), whatever the mountpoints, and
\* getPartitionTable passes lvmify = false to the partition-table
\* constructor; for an image type without rpmOstree it passes lvmify = true.
C6_NoLvmOnOstree ==
    /\ (op = "PackageSets" /\ args.t.rpmOstree)
          => Count(ret.blueprint, "lvm2") <= Count(args.bp.Packages, "lvm2")
    /\ (op = "getPartitionTable" /\ ~IsNil(ret.call))
          => Deref(ret.call).lvmify = ~args.t.rpmOstree

\* C6 witness: PackageSets of an OSTree-based image type has built the
\* package sets of a blueprint that asks for a mountpoint the base
\* partition table does not have.
C6_Witness ==
    /\ op = "PackageSets" /\ args.t.rpmOstree
    /\ ~IsNil(ret.chains)
    /\ haveNewMountpoint(args.t, args.bp.Customizations)
    /\ ret.blueprint = <<>>

\* A call of getPartitionTable for an OSTree-based image type that reached
\* the partition-table constructor.
OstreePartitionTableCalled ==
    /\ op = "getPartitionTable" /\ args.t.rpmOstree
    /\ ~IsNil(ret.call)


\* The error of the rule that asks a boot ISO for the OSTree checksum.
ChecksumRuleError ==
    "boot ISO image type requires specifying a URL from which to retrieve the OSTree commit"

\* PackageSets was called on an image type with an image function, with
\* rpmOstree and bootISO, and with options without an OSTree checksum.
UnresolvedInstallerRequest ==
    /\ args.t.image /\ args.t.rpmOstree /\ args.t.bootISO
    /\ args.options.OSTree.FetchChecksum = ""

\* PackageSets has worked on a copy of the options with a stand-in
\* checksum, the checksum rule has not rejected the request, and the
\* options of the caller have no checksum still.
PlaceholderInCopyOnly ==
    /\ ret.logged # ChecksumRuleError
    /\ ret.options.OSTree.FetchChecksum # ""
    /\ args.options.OSTree.FetchChecksum = ""

\* C19 as stated: PackageSets on an image type with an image function, with
\* rpmOstree and bootISO, and with an empty OSTree checksum is not rejected
\* by the checksum rule, the stand-in checksum is in the copy of the options
\* only, and Manifest with the same options is rejected by the checksum
\* rule.
C19_ManifestRejectedByChecksumRule ==
    /\ (op = "PackageSets" /\ UnresolvedInstallerRequest)
          => PlaceholderInCopyOnly
    /\ (op = "PackageSets, Manifest" /\ UnresolvedInstallerRequest)
          => PlaceholderInCopyOnly /\ ret2.err = ChecksumRuleError

\* C19, amended: as above, and Manifest with the same options is rejected:
\* by the checksum rule when the request embeds no container, and by the
\* container rule, which comes first, when it embeds one.
C19_PlaceholderIsLocal ==
    /\ (op = "PackageSets" /\ UnresolvedInstallerRequest)
          => PlaceholderInCopyOnly
    /\ (op = "PackageSets, Manifest" /\ UnresolvedInstallerRequest)
          => /\ PlaceholderInCopyOnly
             /\ args.bp.Containers = <<>> => ret2.err = ChecksumRuleError
             /\ args.bp.Containers # <<>>
                   => ret2.err = "embedding containers is not supported"

\* PackageSets has returned the chains of an installer request without a
\* checksum, and Manifest has rejected the same request for its checksum.
C19_Witness ==
    /\ op = "PackageSets, Manifest"
    /\ UnresolvedInstallerRequest
    /\ ~IsNil(ret.chains)
    /\ ret2.err = ChecksumRuleError

\* The error of the validator for the request of PackageSets, on the copy
\* of the options that PackageSetsNew validates.
PkgValidatorError ==
    checkOptions(args.t, args.bp.Customizations, ret.options,
                 containerSpecs(args.bp))

\* C20: when the validator rejects the request of PackageSets, or the image
\* function fails, PackageSets on an image type with an image function
\* returns a nil map and nothing of the blueprint; a map it returns has
\* every package set of the image type.
C20_NoChainsOnError ==
    (op = "PackageSets" /\ args.t.image) =>
        /\ (PkgValidatorError # "" \/ args.fn.build # "")
              => IsNil(ret.chains) /\ ret.blueprint = <<>>
        /\ ~IsNil(ret.chains)
              => args.t.packageSets \subseteq DOMAIN Deref(ret.chains)

\* The validator has rejected a request of PackageSets, which returned a
\* nil map.
C20_Witness ==
    /\ op = "PackageSets" /\ args.t.image
    /\ PkgValidatorError # ""
    /\ ret.logged = PkgValidatorError
    /\ IsNil(ret.chains)


----------------------------------------------------------------------------
(***************************************************************************)
(* The registry: architecture.addImageTypes and architecture.GetImageType. *)
(*                                                                         *)
(* An imageType object lives in heap; a pointer to it is its index.        *)
(* imageTypes[a] and imageTypeAliases[a] are the two maps of the           *)
(* architecture a.                                                         *)
(***************************************************************************)

\* getDistro("rocky", 8)
ScosDistro == [name |-> "scos-rocky-8", isRHEL |-> FALSE, osVersion |-> <<8, 0>>]

\* An image type as a package variable defines it: bound to no architecture.
CatalogType(name, nameAliases, packageSets) ==
    [ ImgType(name, TRUE, FALSE, FALSE, TRUE, ScosDistro) EXCEPT
        !.arch = Nil, !.platform = "", !.nameAliases = nameAliases,
        !.packageSets = packageSets ]

scosRockyCommitImgType ==
    CatalogType("ostree-commit", <<"scos-rocky-commit">>, {"os"})

scosRockyOCIImgType ==
    CatalogType("ostree-container", <<"scos-rocky-container">>, {"os", "container"})

scosOECommitImgType ==
    CatalogType("ostree-commit", <<"scos-oe-commit">>, {"os"})

scosOEOCIImgType ==
    CatalogType("ostree-container", <<"scos-oe-container">>, {"os", "container"})

\* The image types the package variables define.
ScosCatalog ==
    << scosRockyCommitImgType, scosRockyOCIImgType,
       scosOECommitImgType, scosOEOCIImgType >>

\* The image types newRockyDistro and newOEDistro give to one call of
\* addImageTypes, as indices of ScosCatalog.
ScosBatches == { <<1, 2>>, <<3, 4>> }

\* The image types that are registered: the three above, and three more
\* that addImageTypes may be given as well, whose names and aliases meet
\* those of the first: a canonical name that is an alias of another image
\* type, an alias that is the canonical name of another, and an alias that
\* another has.
RegCatalog ==
    << scosRockyCommitImgType,
       scosRockyOCIImgType,
       scosOECommitImgType,
       CatalogType("scos-rocky-commit", <<>>, {"os"}),
       CatalogType("ostree-commit", <<"ostree-container">>, {"os"}),
       CatalogType("ostree-container", <<"scos-rocky-commit">>, {"os"}) >>

\* The names GetImageType is asked for; "qcow2" is never registered.
RegNames ==
    { "ostree-commit", "ostree-container", "scos-rocky-commit",
      "scos-rocky-container", "scos-oe-commit", "qcow2" }

\* The most image types registered in all, and in one call.
MaxRegistrations == 3
MaxBatch == 2

\* The platform addImageTypes is given for an architecture.
PlatformOf(a) == IF a = "x86_64" THEN "X86" ELSE "Aarch64"

\* m with m[k] = v
MapSet(m, k, v) == [ x \in DOMAIN m \cup {k} |-> IF x = k THEN v ELSE m[x] ]

\* addAliases that stores the canonical name under itself and the alias as
\* its target.
RECURSIVE addAliases_swapped(_, _, _)
addAliases_swapped(st, name, aliases) ==
    IF aliases = <<>> \/ st.panic THEN st
    ELSE IF Head(aliases) \in DOMAIN st.aliases
    THEN [st EXCEPT !.panic = TRUE]
    ELSE addAliases_swapped([st EXCEPT !.aliases = MapSet(@, name, Head(aliases))],
                            name, Tail(aliases))

\* addAliases that overwrites an alias that is already mapped.
RECURSIVE addAliases_overwrite(_, _, _)
addAliases_overwrite(st, name, aliases) ==
    IF aliases = <<>> \/ st.panic THEN st
    ELSE addAliases_overwrite([st EXCEPT !.aliases = MapSet(@, Head(aliases), name)],
                              name, Tail(aliases))

\* The loop of addImageTypes over the aliases of it: st is the registry of
\* the architecture so far; a panic ends the loop.
RECURSIVE addAliases(_, _, _)
addAliases(st, name, aliases) ==
    IF aliases = <<>> \/ st.panic THEN st
    ELSE IF Head(aliases) \in DOMAIN st.aliases
    THEN [st EXCEPT !.panic = TRUE]
    ELSE addAliases([st EXCEPT !.aliases = MapSet(@, Head(aliases), name)],
                    name, Tail(aliases))

\* addImageTypes whose loop has one variable for all its image types: every
\* name of the call is given the pointer p to that variable, which holds
\* the image type of the last iteration.
RECURSIVE addImageTypesShared(_, _, _, _, _)
addImageTypesShared(st, a, platform, its, p) ==
    IF its = <<>> \/ st.panic THEN st
    ELSE LET it  == [ Head(its) EXCEPT
                        !.arch = Ptr([name |-> a, distro |-> ScosDistro]),
                        !.platform = platform ]
             st1 == [ st EXCEPT !.heap = [@ EXCEPT ![p] = it],
                                !.types = MapSet(@, it.name, p) ]
         IN  addImageTypesShared(addAliases(st1, it.name, it.nameAliases),
                                 a, platform, Tail(its), p)

addImageTypes_sharedLoopVar(st, a, platform, its) ==
    IF its = <<>> THEN st
    ELSE addImageTypesShared([st EXCEPT !.heap = Append(@, Head(its))],
                             a, platform, its, Len(st.heap) + 1)

\* The loop of addImageTypes over the image types its: each is copied, the
\* copy is bound to the architecture and the platform, and a pointer to the
\* copy is stored under its name.
RECURSIVE addImageTypes(_, _, _, _)
addImageTypes(st, a, platform, its) ==
    IF its = <<>> \/ st.panic THEN st
    ELSE LET it    == [ Head(its) EXCEPT
                          !.arch = Ptr([name |-> a, distro |-> ScosDistro]),
                          !.platform = platform ]
             heap1 == Append(st.heap, it)
             st1   == [ st EXCEPT !.heap = heap1,
                                  !.types = MapSet(@, it.name, Len(heap1)) ]
         IN  addImageTypes(addAliases(st1, it.name, it.nameAliases),
                           a, platform, Tail(its))

\* architecture.GetImageType on the maps types and aliases
GetImageType(types, aliases, name) ==
    IF name \in DOMAIN types
    THEN [ t |-> Ptr(types[name]), err |-> "", panic |-> FALSE ]
    ELSE IF name \notin DOMAIN aliases
    THEN [ t |-> Nil, err |-> "invalid image type", panic |-> FALSE ]
    ELSE IF aliases[name] \notin DOMAIN types
    THEN [ t |-> Nil, err |-> "", panic |-> TRUE ]
    ELSE [ t |-> Ptr(types[aliases[name]]), err |-> "", panic |-> FALSE ]

\* The strings the listings sort, in the order of sort.Strings.
Alphabetical ==
    << "aarch64", "ostree-commit", "ostree-container", "scos-oe-commit",
       "scos-oe-container", "scos-rocky-commit", "scos-rocky-container",
       "x86_64" >>

\* sort.Strings of the strings of S
SortStrings(S) == SelectSeq(Alphabetical, LAMBDA s : s \in S)

\* distribution.ListArches on the map arches
ListArches(arches) == SortStrings(arches)

\* distribution.GetArch on the map arches
GetArch(arches, name) ==
    IF name \notin arches
    THEN [ arch |-> Nil, err |-> "invalid architecture" ]
    ELSE [ arch |-> Ptr(name), err |-> "" ]

\* architecture.ListImageTypes on the map types
ListImageTypes(types) == SortStrings(DOMAIN types)

\* The requests that are served by the image types of the registry.
RegBlueprints ==
    { bp \in Blueprints : /\ bp.Customizations = EmptyCustomizations
                          /\ bp.Containers = <<>> }

RegOptions == Options({"", "sha"}, {"http://ostree"}, {FALSE})

RegPackageSpecSets == { pss \in PackageSpecSets : DOMAIN pss = {osPkgsKey} }

(***************************************************************************)
(* Specification SpecRegistry: image types of the catalog are registered   *)
(* in the architectures, and image types are looked up by name.  A panic   *)
(* of addImageTypes ends the program.                                      *)
(***************************************************************************)

InitRegistry ==
    /\ op = ""
    /\ args = None
    /\ ret = None
    /\ ret2 = None
    /\ catalog = RegCatalog
    /\ heap = <<>>
    /\ imageTypes = [a \in Archs |-> EmptyMap]
    /\ imageTypeAliases = [a \in Archs |-> EmptyMap]

AddImageTypes ==
    /\ op # "panic"
    /\ \E a \in Archs, idx \in SeqsUpTo(DOMAIN catalog, MaxBatch) :
          /\ Len(idx) > 0
          /\ Len(heap) + Len(idx) <= MaxRegistrations
          /\ LET st == addImageTypes([ heap    |-> heap,
                                       types   |-> imageTypes[a],
                                       aliases |-> imageTypeAliases[a],
                                       panic   |-> FALSE ],
                                     a, PlatformOf(a),
                                     [ i \in DOMAIN idx |-> catalog[idx[i]] ])
             IN  /\ heap' = st.heap
                 /\ imageTypes' = [imageTypes EXCEPT ![a] = st.types]
                 /\ imageTypeAliases' = [imageTypeAliases EXCEPT ![a] = st.aliases]
                 /\ op' = IF st.panic THEN "panic" ELSE "addImageTypes"
                 /\ args' = [ arch |-> a, imageTypes |-> idx ]
                 /\ ret' = None
    /\ UNCHANGED <<ret2, catalog>>

CallGetImageType ==
    /\ op # "panic"
    /\ \E a \in Archs, name \in RegNames :
          /\ op' = "GetImageType"
          /\ args' = [ arch |-> a, name |-> name ]
          /\ ret' = GetImageType(imageTypes[a], imageTypeAliases[a], name)
    /\ UNCHANGED <<ret2, regVars>>

NextRegistry == AddImageTypes \/ CallGetImageType

SpecRegistry == InitRegistry /\ [][NextRegistry]_vars

\* C5: after any registrations, GetImageType of an alias returns the object
\* that GetImageType of the canonical name of the alias returns, and
\* GetImageType of a name that is neither a canonical name nor an alias
\* returns an error; it never panics.
C5_AliasReturnsCanonicalObject ==
    op = "GetImageType" =>
        LET types   == imageTypes[args.arch]
            aliases == imageTypeAliases[args.arch]
        IN  /\ ~ret.panic
            /\ args.name \in DOMAIN aliases
                  => ret = GetImageType(types, aliases, aliases[args.name])
            /\ args.name \notin (DOMAIN types \cup DOMAIN aliases)
                  => ret.err # ""

\* The canonical names and the aliases of the architecture of the call are
\* apart.
NamesAndAliasesApart ==
    DOMAIN imageTypes[args.arch] \cap DOMAIN imageTypeAliases[args.arch] = {}

\* The statement of C5 for the registries whose canonical names and
\* aliases are apart.
AliasReturnsCanonicalObjectWhenApart ==
    (op = "GetImageType" /\ NamesAndAliasesApart) =>
        LET types   == imageTypes[args.arch]
            aliases == imageTypeAliases[args.arch]
        IN  /\ ~ret.panic
            /\ args.name \in DOMAIN aliases
                  => ret = GetImageType(types, aliases, aliases[args.name])
            /\ args.name \notin (DOMAIN types \cup DOMAIN aliases)
                  => ret.err # ""


(***************************************************************************)
(* Specification SpecServe: a distribution is built as newRockyDistro and  *)
(* newOEDistro build it, with one call of addImageTypes for an             *)
(* architecture, and requests are served from its registry in any order.  *)
(***************************************************************************)

InitServe ==
    /\ op = ""
    /\ args = None
    /\ ret = None
    /\ ret2 = None
    /\ catalog = ScosCatalog
    /\ heap = <<>>
    /\ imageTypes = [a \in Archs |-> EmptyMap]
    /\ imageTypeAliases = [a \in Archs |-> EmptyMap]

\* x86_64.addImageTypes(...) or aarch64.addImageTypes(...) of newRockyDistro
\* or newOEDistro
NewDistroAddImageTypes ==
    /\ op # "panic"
    /\ \E a \in Archs, idx \in ScosBatches :
          /\ imageTypes[a] = EmptyMap
          /\ LET st == addImageTypes([ heap    |-> heap,
                                       types   |-> imageTypes[a],
                                       aliases |-> imageTypeAliases[a],
                                       panic   |-> FALSE ],
                                     a, PlatformOf(a),
                                     [ i \in DOMAIN idx |-> catalog[idx[i]] ])
             IN  /\ heap' = st.heap
                 /\ imageTypes' = [imageTypes EXCEPT ![a] = st.types]
                 /\ imageTypeAliases' = [imageTypeAliases EXCEPT ![a] = st.aliases]
                 /\ op' = IF st.panic THEN "panic" ELSE "addImageTypes"
                 /\ args' = [ arch |-> a, imageTypes |-> idx ]
                 /\ ret' = None
    /\ UNCHANGED <<ret2, catalog>>

CallGetArch ==
    /\ op # "panic"
    /\ \E name \in Archs \cup {"s390x"} :
          /\ op' = "GetArch"
          /\ args' = [ name |-> name ]
          /\ ret' = GetArch(Archs, name)
    /\ UNCHANGED <<ret2, regVars>>

CallListArches ==
    /\ op # "panic"
    /\ op' = "ListArches"
    /\ args' = None
    /\ ret' = [ names |-> ListArches(Archs) ]
    /\ UNCHANGED <<ret2, regVars>>

CallListImageTypes ==
    /\ op # "panic"
    /\ \E a \in Archs :
          /\ op' = "ListImageTypes"
          /\ args' = [ arch |-> a ]
          /\ ret' = [ names |-> ListImageTypes(imageTypes[a]) ]
    /\ UNCHANGED <<ret2, regVars>>

\* PackageSets of a request on an image type of the registry
RegPackageSets ==
    /\ op # "panic"
    /\ \E a \in Archs :
          \E name \in DOMAIN imageTypes[a], bp \in RegBlueprints,
             options \in RegOptions :
              /\ op' = "PackageSets"
              /\ args' = [ arch |-> a, name |-> name ]
              /\ ret' = PackageSets(heap[imageTypes[a][name]], bp, options,
                                    Repos, NoFailure)
    /\ UNCHANGED <<ret2, regVars>>

\* Manifest of a request on an image type of the registry
RegManifest ==
    /\ op # "panic"
    /\ \E a \in Archs :
          \E name \in DOMAIN imageTypes[a], options \in RegOptions,
             pss \in RegPackageSpecSets :
              /\ op' = "Manifest"
              /\ args' = [ arch |-> a, name |-> name ]
              /\ \E order \in Orders(DOMAIN pss) :
                    ret' = Manifest(heap[imageTypes[a][name]],
                                    EmptyCustomizations, options, <<>>, pss,
                                    <<>>, 0, NoFailure, order)
    /\ UNCHANGED <<ret2, regVars>>

NextServe ==
    \/ NewDistroAddImageTypes
    \/ CallGetImageType
    \/ CallGetArch
    \/ CallListArches
    \/ CallListImageTypes
    \/ RegPackageSets
    \/ RegManifest

SpecServe == InitServe /\ [][NextServe]_vars

\* The image type stored under the name n of the architecture a is a copy
\* of an entry of the catalog, bound to a and to the platform of a, and
\* with every other field as the catalog has it.
IsBoundCopy(a, n) ==
    LET t == heap[imageTypes[a][n]]
    IN  /\ t.name = n
        /\ t.arch = Ptr([name |-> a, distro |-> ScosDistro])
        /\ \E i \in DOMAIN catalog :
              t = [ catalog[i] EXCEPT !.arch = t.arch,
                                      !.platform = PlatformOf(a) ]

\* The pairs of an architecture and a canonical name of it.
RegisteredNames == { <<a, n>> \in Archs \X RegNames : n \in DOMAIN imageTypes[a] }

\* The registry holds private copies: every stored image type is a bound
\* copy of a catalog entry, no two names share an object, and the catalog
\* is as it was defined.
PrivateCopies ==
    /\ catalog = ScosCatalog
    /\ \A x \in RegisteredNames : IsBoundCopy(x[1], x[2])
    /\ \A x, y \in RegisteredNames :
          x # y => imageTypes[x[1]][x[2]] # imageTypes[y[1]][y[2]]

\* A step leaves the catalog and every object of the heap as they are, and
\* a step that is not a registration leaves the maps of the registry as
\* they are too.
RegistryFrame ==
    /\ catalog' = catalog
    /\ \A p \in DOMAIN heap : p \in DOMAIN heap' /\ heap'[p] = heap[p]
    /\ op' \notin {"addImageTypes", "panic"} => UNCHANGED regVars

\* C17: the catalog entries are never changed; an image type that is
\* registered in several architectures is stored in each as an object of
\* its own, bound to that architecture, with the other fields of the
\* catalog entry; and GetArch, GetImageType, ListArches, ListImageTypes,
\* PackageSets and Manifest change neither the maps of the registry nor a
\* registered image type.
C17_CatalogNeverMutated ==
    []PrivateCopies /\ [][RegistryFrame]_vars

\* One catalog entry is registered in both architectures, as two objects,
\* and a request has been served from the registry since.
C17_Witness ==
    /\ op \in {"PackageSets", "Manifest"}
    /\ \E n \in RegNames :
          /\ \A a \in Archs : n \in DOMAIN imageTypes[a]
          /\ imageTypes["x86_64"][n] # imageTypes["aarch64"][n]
          /\ \E i \in DOMAIN catalog : \A a \in Archs :
                [ heap[imageTypes[a][n]] EXCEPT !.arch = Nil, !.platform = "" ]
                    = catalog[i]

\* The image types that GetImageType can return on the architecture a: the
\* objects the image-type map of a points to.
Registered(a) == { heap[imageTypes[a][n]] : n \in DOMAIN imageTypes[a] }

\* C11: an image type that defines no build package set is rejected when it
\* is registered: every image type of the registry of every architecture
\* defines a build package set.
C11_RegisteredTypesDefineBuild ==
    \A a \in Archs : \A t \in Registered(a) : buildPkgsKey \in t.packageSets


\* C12: after any registrations, every alias of every architecture points
\* to a canonical name of the image-type map, and GetImageType never panics
\* over an alias without an image type.
C12_NoDanglingAlias ==
    /\ \A a \in Archs : \A alias \in DOMAIN imageTypeAliases[a] :
          imageTypeAliases[a][alias] \in DOMAIN imageTypes[a]
    /\ op = "GetImageType" => ~ret.panic

\* GetImageType has resolved a name through the alias map.
C12_Witness ==
    /\ op = "GetImageType"
    /\ args.name \notin DOMAIN imageTypes[args.arch]
    /\ args.name \in DOMAIN imageTypeAliases[args.arch]
    /\ ~IsNil(ret.t)
    /\ heap[Deref(ret.t)].name = imageTypeAliases[args.arch][args.name]


\* C13: after registrations that have all succeeded, no name of an
\* architecture is both a key of its image-type map and a key of its alias
\* map.
C13_NamesAndAliasesDisjoint ==
    op # "panic" =>
        \A a \in Archs :
            DOMAIN imageTypes[a] \cap DOMAIN imageTypeAliases[a] = {}

\* An AddImageTypes step that finds an alias of one of its image types
\* mapped already in the alias map of the architecture.
AliasAlreadyMapped ==
    /\ op' \in {"addImageTypes", "panic"}
    /\ \E i \in DOMAIN args'.imageTypes :
          \E k \in DOMAIN catalog[args'.imageTypes[i]].nameAliases :
              catalog[args'.imageTypes[i]].nameAliases[k]
                  \in DOMAIN imageTypeAliases[args'.arch]

\* C14: a registration that finds one of its aliases mapped already in the
\* architecture fails fatally, and no step changes the canonical name an
\* alias is mapped to: an alias is never associated with two canonical
\* names.
C14_AliasKeepsTarget ==
    [][ /\ AliasAlreadyMapped => op' = "panic"
        /\ \A a \in Archs : \A alias \in DOMAIN imageTypeAliases[a] :
              /\ alias \in DOMAIN imageTypeAliases'[a]
              /\ imageTypeAliases'[a][alias] = imageTypeAliases[a][alias] ]_vars

\* addImageTypes has panicked over an alias that another image type, of
\* another canonical name, had registered before.
C14_Witness ==
    /\ op = "panic"
    /\ \E i \in DOMAIN args.imageTypes :
          \E k \in DOMAIN catalog[args.imageTypes[i]].nameAliases :
              LET alias == catalog[args.imageTypes[i]].nameAliases[k]
              IN  /\ alias \in DOMAIN imageTypeAliases[args.arch]
                  /\ imageTypeAliases[args.arch][alias]
                        # catalog[args.imageTypes[i]].name


----------------------------------------------------------------------------
(***************************************************************************)
(* The depsolve job of the worker: DepsolveJobImpl.depsolve and            *)
(* DepsolveJobImpl.Run.                                                    *)
(***************************************************************************)

\* The package sets a depsolve job names, and the names it gives them.
DepPackageSets ==
    { PackageSet(<<"bash">>, <<>>), PackageSet(<<"glibc">>, <<"mozjs78">>) }

DepNames == {"build", "os", "blueprint"}

\* What impl.RPMMD.Depsolve answers for a package set: the resolved specs,
\* or an error.
DepOutcomes ==
    { [ specs |-> <<>>,                         err |-> "" ],
      [ specs |-> <<"bash-5.1", "glibc-2.28">>, err |-> "" ],
      [ specs |-> <<>>,                         err |-> "DNF error occured" ] }

\* The loop of depsolve over the names of packageSets in the order the
\* range enumerates them; packageSpecs is the map filled so far.
\* depsolveLoop_partialOnError returns what it has resolved when a package
\* set fails.
RECURSIVE depsolveLoop_partialOnError(_, _, _, _)
depsolveLoop_partialOnError(packageSpecs, packageSets, rpmmd, order) ==
    IF order = <<>> THEN [ packageSpecs |-> Ptr(packageSpecs), err |-> "" ]
    ELSE LET name == Head(order)
             r    == rpmmd[packageSets[name]]
         IN  IF r.err # ""
             THEN [ packageSpecs |-> Ptr(packageSpecs), err |-> r.err ]
             ELSE depsolveLoop_partialOnError(MapSet(packageSpecs, name, r.specs),
                                              packageSets, rpmmd, Tail(order))

RECURSIVE depsolveLoop(_, _, _, _)
depsolveLoop(packageSpecs, packageSets, rpmmd, order) ==
    IF order = <<>> THEN [ packageSpecs |-> Ptr(packageSpecs), err |-> "" ]
    ELSE LET name == Head(order)
             r    == rpmmd[packageSets[name]]
         IN  IF r.err # ""
             THEN [ packageSpecs |-> Nil, err |-> r.err ]
             ELSE depsolveLoop(MapSet(packageSpecs, name, r.specs),
                               packageSets, rpmmd, Tail(order))

\* depsolve that returns the sets it has resolved along with the error.
depsolve_partialOnError(packageSets, rpmmd, order) ==
    depsolveLoop_partialOnError(EmptyMap, packageSets, rpmmd, order)

\* impl.depsolve(packageSets, ...): rpmmd is impl.RPMMD, order the order of
\* the range over packageSets.
depsolve(packageSets, rpmmd, order) ==
    depsolveLoop(EmptyMap, packageSets, rpmmd, order)

\* var result worker.DepsolveJobResult
ZeroResult == [ PackageSpecs |-> Nil, Error |-> "" ]

\* Lines 33-37 of Run: the result of the job from what depsolve returns.
RunResult(packageSets, rpmmd, order) ==
    LET d == depsolve(packageSets, rpmmd, order)
    IN  [ PackageSpecs |-> d.packageSpecs, Error |-> d.err ]

(***************************************************************************)
(* Specification SpecDepsolve: one run of a depsolve job.  The job is      *)
(* drawn from DepsolveJobs: its arguments, whether they parse, what the    *)
(* resolver answers for each package set, and whether the update of the    *)
(* result succeeds.  ret is the state of the run: the result, the updates  *)
(* the job has received, and the error Run returns.                        *)
(***************************************************************************)

DepsolveJobs ==
    [ argsErr     : {"", "error parsing arguments"},
      updateErr   : {"", "job was canceled"},
      PackageSets : UNION { [names -> DepPackageSets] : names \in SUBSET DepNames },
      rpmmd       : [DepPackageSets -> DepOutcomes] ]

InitDepsolve ==
    /\ op = ""
    /\ args \in DepsolveJobs
    /\ ret = None
    /\ ret2 = None
    /\ NoRegistry

\* err := job.Args(&args)
RunArgs ==
    /\ op = ""
    /\ op' = IF args.argsErr # "" THEN "Run: return" ELSE "Run: job.Args"
    /\ ret' = [ result |-> ZeroResult, updates |-> <<>>, err |-> args.argsErr ]
    /\ UNCHANGED <<args, ret2, regVars>>

\* result.PackageSpecs, err = impl.depsolve(...); result.Error = err.Error()
RunDepsolve ==
    /\ op = "Run: job.Args"
    /\ op' = "Run: impl.depsolve"
    /\ \E order \in Orders(DOMAIN args.PackageSets) :
          ret' = [ ret EXCEPT !.result =
                     RunResult(args.PackageSets, args.rpmmd, order) ]
    /\ UNCHANGED <<args, ret2, regVars>>

\* RunUpdate that returns the error of the depsolve in place of reporting
\* a result that carries it.
RunUpdate_skipOnError ==
    /\ op = "Run: impl.depsolve"
    /\ op' = "Run: return"
    /\ ret' = IF ret.result.Error # ""
              THEN [ ret EXCEPT !.err = ret.result.Error ]
              ELSE [ ret EXCEPT
                       !.updates = Append(@, ret.result),
                       !.err = IF args.updateErr # ""
                               THEN "Error reporting job result" ELSE "" ]
    /\ UNCHANGED <<args, ret2, regVars>>

\* err = job.Update(&result), and the return of Run
RunUpdate ==
    /\ op = "Run: impl.depsolve"
    /\ op' = "Run: return"
    /\ ret' = [ ret EXCEPT
                  !.updates = Append(@, ret.result),
                  !.err = IF args.updateErr # ""
                          THEN "Error reporting job result" ELSE "" ]
    /\ UNCHANGED <<args, ret2, regVars>>

NextDepsolve == RunArgs \/ RunDepsolve \/ RunUpdate

SpecDepsolve == InitDepsolve /\ [][NextDepsolve]_vars

\* The package sets of the job that the resolver fails to resolve.
Failing ==
    { n \in DOMAIN args.PackageSets : args.rpmmd[args.PackageSets[n]].err # "" }

\* The results of the job: the one Run has built, and the ones it has
\* reported.
JobResults ==
    IF op = "Run: impl.depsolve" THEN {ret.result}
    ELSE IF op = "Run: return"
    THEN { ret.updates[i] : i \in DOMAIN ret.updates }
    ELSE {}

\* C16: a result of the depsolve job without an error has the specs of
\* every requested package set, under the requested names and no other; when
\* a package set fails to resolve, the result has an error and no package
\* specs at all.
C16_AllOrNothing ==
    \A r \in JobResults :
            /\ r.Error = "" =>
                  /\ ~IsNil(r.PackageSpecs)
                  /\ DOMAIN Deref(r.PackageSpecs) = DOMAIN args.PackageSets
                  /\ Failing = {}
            /\ r.Error # "" => IsNil(r.PackageSpecs) /\ Failing # {}
            /\ Failing # {} => r.Error # ""

\* A job with a package set that resolves and one that does not has
\* reported its result: an error, and no specs.
C16_Witness ==
    /\ op = "Run: return"
    /\ Failing # {}
    /\ Failing # DOMAIN args.PackageSets
    /\ Len(ret.updates) = 1
    /\ ret.updates[1].Error # ""
    /\ IsNil(ret.updates[1].PackageSpecs)


\* SpecDepsolve with a run that goes on: job.Args, RPMMD.Depsolve and
\* job.Update return, and Run has no loop but the range over the package
\* sets of the job, so a step that can be taken is taken.
SpecDepsolveFair == SpecDepsolve /\ WF_vars(NextDepsolve)

\* The arguments of the job have parsed.
ArgsParsed == op = "Run: job.Args"

\* Run has returned after one update of the job.
ReportedOnce == op = "Run: return" /\ Len(ret.updates) = 1

\* What Run has reported and returned so far is as C22 says: never more
\* than one update; after the return, one update when the arguments parsed,
\* with the error of a failed depsolve in its Error field, and none when
\* they did not; and an error of Run only for arguments that do not parse
\* and for an update that fails.
RunReportsOnce ==
    op \in {"Run: job.Args", "Run: impl.depsolve", "Run: return"} =>
        /\ Len(ret.updates) <= 1
        /\ op = "Run: return" =>
              /\ args.argsErr = "" =>
                    /\ Len(ret.updates) = 1
                    /\ Failing # {} => ret.updates[1].Error # ""
                    /\ Failing = {} => ret.updates[1].Error = ""
              /\ args.argsErr # "" => ret.updates = <<>>
              /\ ret.err # "" <=> (args.argsErr # "" \/ args.updateErr # "")
              /\ args.argsErr # "" => ret.err = args.argsErr

\* C22: Run reports one result for every job whose arguments parse, also
\* when the depsolve fails, in which case the result carries the error and
\* Run returns none; it reports nothing when the arguments do not parse;
\* and it returns an error only when the arguments do not parse or the
\* update fails.
C22_OneUpdatePerJob ==
    []RunReportsOnce /\ (ArgsParsed ~> ReportedOnce)

\* Run has returned no error for a job whose depsolve failed, after one
\* update with the error of the depsolve.
C22_Witness ==
    /\ op = "Run: return"
    /\ args.argsErr = "" /\ args.updateErr = ""
    /\ Failing # {}
    /\ Len(ret.updates) = 1
    /\ ret.updates[1].Error = "DNF error occured"
    /\ ret.err = ""

=============================================================================
